---- MODULE Spec2Model ----
(***************************************************************************)
(* A model of utils.py: the interactive prompt loop_input and the          *)
(* ConfigReader class (read_config, listparse, stringparse, numberparse,   *)
(* boolparse, get_config, get_params, get, set).                           *)
(*                                                                         *)
(* Python strings are modelled as sequences of one-character strings, so   *)
(* that splitting, stripping, joining and the two regular expressions of   *)
(* listparse are computed and not assumed.  Python values are tagged       *)
(* records, so that the integer 3, the float 3.5, the string "3" and the   *)
(* boolean True are four different values.                                 *)
(*                                                                         *)
(* Not modelled: ConfigReader.__call__ (lines 82-95; its body is not       *)
(* indented under the def, so the file as it stands does not compile),     *)
(* ConfigReader.__repr__ and the Timer class.  Every other function is     *)
(* modelled as written.                                                    *)
(***************************************************************************)
EXTENDS Integers, Sequences, FiniteSets, TLC

VARIABLES
    file,      \* the lines f.readlines() yields for self.filepath
    pc,        \* ConfigReader: "new", "ready", or "failed" (construction raised)
    exc,       \* the exception that ended construction, "" when none
    params,    \* self.params: an insertion-ordered dict, a sequence of <<key, value>>
    op,        \* the last method called on the constructed reader
    args,      \* the arguments of that call
    result,    \* what that call returned or raised
    fileReads, \* how many times the file was opened for reading
    lastSet,   \* history: the value most recently given to set(), per name
    text,      \* the argument handed to a parsing helper
    src,       \* how that argument was put together (a token, or the elements of a list literal)
    fn,        \* the helper applied to it ("" before the call)
    out,       \* what the helper returned or raised
    li_rtype,  \* loop_input: the rtype argument
    li_default,\* loop_input: the default argument
    li_pc,     \* loop_input: "prompt", "returned" or "raised"
    li_s,      \* loop_input: the text most recently entered
    li_ret,    \* loop_input: the value returned (or the exception raised)
    li_n       \* loop_input: the number of prompts answered so far

vars == <<file, pc, exc, params, op, args, result, fileReads, lastSet,
          text, src, fn, out, li_rtype, li_default, li_pc, li_s, li_ret, li_n>>

(***************************************************************************)
(* Bounds of the model.                                                    *)
(***************************************************************************)
MaxLines == 2     \* lines in a configuration file
MaxTokLen == 3    \* characters in a generated token
MaxElems == 3     \* elements in a generated list literal
MaxPrompts == 3   \* prompts answered in one loop_input call
MaxArgs == 2      \* names given to one get() call

(***************************************************************************)
(* Python values.                                                          *)
(***************************************************************************)
PyNone == [t |-> "none"]
PyInt(n) == [t |-> "int", i |-> n]
PyBool(b) == [t |-> "bool", b |-> b]
PyStr(s) == [t |-> "str", s |-> s]
PyList(l) == [t |-> "list", l |-> l]
PyTuple(l) == [t |-> "tuple", tup |-> l]
\* a finite float num/den, den a power of ten, without trailing zeros in num
PyFloat(num, den) == [t |-> "float", num |-> num, den |-> den]
PyInf(neg) == [t |-> "inf", neg |-> neg]
PyNaN == [t |-> "nan"]
\* an exception propagating out of a call
Raise(e) == [t |-> "raise", exc |-> e]
IsRaise(v) == v.t = "raise"

(***************************************************************************)
(* Python strings: sequences of one-character strings.                     *)
(***************************************************************************)
\* the characters str.split(), str.rstrip(), str.strip() and the class \s treat as white space
Whitespace == {" ", "\t", "\n"}
QuoteChars == {"\"", "'"}
DigitChars == {"0", "1", "2", "3", "4", "5", "6", "7", "8", "9"}

DigitVal(c) ==
    CASE c = "0" -> 0 [] c = "1" -> 1 [] c = "2" -> 2 [] c = "3" -> 3
      [] c = "4" -> 4 [] c = "5" -> 5 [] c = "6" -> 6 [] c = "7" -> 7
      [] c = "8" -> 8 [] c = "9" -> 9

\* str.lower() on the letters that spell inf, infinity and nan
Lower(c) ==
    CASE c = "I" -> "i" [] c = "N" -> "n" [] c = "F" -> "f" [] c = "A" -> "a"
      [] c = "T" -> "t" [] c = "Y" -> "y" [] OTHER -> c

LowerStr(s) == [j \in 1..Len(s) |-> Lower(s[j])]

RECURSIVE RStrip(_)
RStrip(s) ==
    IF s # <<>> /\ s[Len(s)] \in Whitespace THEN RStrip(SubSeq(s, 1, Len(s) - 1)) ELSE s

RECURSIVE LStrip(_)
LStrip(s) ==
    IF s # <<>> /\ s[1] \in Whitespace THEN LStrip(Tail(s)) ELSE s

Strip(s) == LStrip(RStrip(s))

\* line.startswith(c) for a one-character prefix
StartsWith(s, c) == s # <<>> /\ s[1] = c

\* str.split() without arguments: the maximal runs of non-white-space characters
RECURSIVE SplitFrom(_, _, _)
SplitFrom(s, cur, acc) ==
    IF s = <<>> THEN (IF cur = <<>> THEN acc ELSE Append(acc, cur))
    ELSE IF s[1] \in Whitespace
         THEN SplitFrom(Tail(s), <<>>, IF cur = <<>> THEN acc ELSE Append(acc, cur))
         ELSE SplitFrom(Tail(s), Append(cur, s[1]), acc)

Split(s) == SplitFrom(s, <<>>, <<>>)

\* " ".join(words)
RECURSIVE JoinSpace(_)
JoinSpace(words) ==
    IF words = <<>> THEN <<>>
    ELSE IF Len(words) = 1 THEN words[1]
    ELSE words[1] \o <<" ">> \o JoinSpace(Tail(words))

(***************************************************************************)
(* float(string) and int(string), on the text forms the model's alphabet   *)
(* can spell: an optional sign, then inf, infinity or nan in any case, or  *)
(* decimal digits with at most one point.  The alphabet of generated       *)
(* tokens holds no exponent marker between digits and no underscore.       *)
(***************************************************************************)
AllDigits(s) == \A j \in 1..Len(s) : s[j] \in DigitChars

RECURSIVE DigitsVal(_)
DigitsVal(s) ==
    IF s = <<>> THEN 0 ELSE 10 * DigitsVal(SubSeq(s, 1, Len(s) - 1)) + DigitVal(s[Len(s)])

RECURSIVE Pow10(_)
Pow10(k) == IF k = 0 THEN 1 ELSE 10 * Pow10(k - 1)

\* num/den with the trailing zeros of the fraction removed
RECURSIVE Normal(_, _)
Normal(num, den) ==
    IF den > 1 /\ num % 10 = 0 THEN Normal(num \div 10, den \div 10) ELSE PyFloat(num, den)

NoFloat == [ok |-> FALSE]
SomeFloat(v) == [ok |-> TRUE, v |-> v]

\* the unsigned part of a float literal
FloatBody(b, neg) ==
    LET low == LowerStr(b)
        dots == {j \in 1..Len(b) : b[j] = "."}
    IN  IF low = <<"i", "n", "f">> \/ low = <<"i", "n", "f", "i", "n", "i", "t", "y">>
        THEN SomeFloat(PyInf(neg))
        ELSE IF low = <<"n", "a", "n">> THEN SomeFloat(PyNaN)
        ELSE IF dots = {}
        THEN IF b # <<>> /\ AllDigits(b)
             THEN SomeFloat(PyFloat(IF neg THEN -DigitsVal(b) ELSE DigitsVal(b), 1))
             ELSE NoFloat
        ELSE IF Cardinality(dots) > 1 THEN NoFloat
        ELSE LET d == CHOOSE j \in dots : TRUE
                 ip == SubSeq(b, 1, d - 1)
                 fp == SubSeq(b, d + 1, Len(b))
                 n == DigitsVal(ip \o fp)
             IN  IF AllDigits(ip) /\ AllDigits(fp) /\ Len(ip) + Len(fp) > 0
                 THEN SomeFloat(Normal(IF neg THEN -n ELSE n, Pow10(Len(fp))))
                 ELSE NoFloat

\* float(string): NoFloat stands for ValueError
ParseFloat(string) ==
    LET s == Strip(string)
    IN  IF s = <<>> THEN NoFloat
        ELSE IF s[1] = "-" THEN FloatBody(Tail(s), TRUE)
        ELSE IF s[1] = "+" THEN FloatBody(Tail(s), FALSE)
        ELSE FloatBody(s, FALSE)

\* int(floaty) for a finite float: truncation toward zero
TruncInt(f) == IF f.num >= 0 THEN f.num \div f.den ELSE -((-f.num) \div f.den)

\* int(string): an optional sign and decimal digits; NoFloat stands for ValueError
ParseInt(string) ==
    LET s == Strip(string)
        neg == s # <<>> /\ s[1] = "-"
        b == IF s # <<>> /\ s[1] \in {"-", "+"} THEN Tail(s) ELSE s
    IN  IF b # <<>> /\ AllDigits(b)
        THEN SomeFloat(PyInt(IF neg THEN -DigitsVal(b) ELSE DigitsVal(b)))
        ELSE NoFloat

(***************************************************************************)
(* ConfigReader.numberparse and ConfigReader.boolparse                     *)
(***************************************************************************)
\* float(string) raises ValueError, int(nan) raises ValueError (both caught),
\* int(inf) raises OverflowError (not caught)
numberparse(string) ==
    LET f == ParseFloat(string)
    IN  IF ~f.ok THEN PyStr(string)
        ELSE IF f.v.t = "nan" THEN PyStr(string)
        ELSE IF f.v.t = "inf" THEN Raise("OverflowError")
        ELSE IF TruncInt(f.v) * f.v.den = f.v.num THEN PyInt(TruncInt(f.v))
        ELSE f.v

\* bool(x) of a Python string: False only for the empty string
BoolOfStr(s) == Len(s) > 0

boolparse(v) ==
    IF v = PyStr(<<"T", "r", "u", "e">>) \/ v = PyStr(<<"F", "a", "l", "s", "e">>)
    THEN PyBool(BoolOfStr(v.s))
    ELSE v

(***************************************************************************)
(* ConfigReader.listparse: re.findall with the two patterns                *)
(*     re_quoted    ["'](.+?)["'][,\]]                                     *)
(*     re_unquoted  [\[\s]*(.+?)[,\]]                                      *)
(* findall scans from the left; at each start it takes the first match in  *)
(* the backtracking order (greedy *, lazy +?), records the group, and      *)
(* resumes after the match; without a match it moves one character on.     *)
(***************************************************************************)
TermChars == {",", "]"}
\* the class [\[\s]
OpenChars == {"["} \cup Whitespace

SetMin(S) == CHOOSE x \in S : \A y \in S : x <= y
SetMax(S) == CHOOSE x \in S : \A y \in S : x >= y

\* '.' matches every character but the newline
DotRun(s, from, to) == \A j \in from..to : s[j] # "\n"

\* the lengths k of a group s[c..c+k-1] that (.+?) may take when the two-character
\* tail ["'][,\]] follows it
QuotedLens(s, c) ==
    {k \in 1..(Len(s) - c - 1) :
        /\ DotRun(s, c, c + k - 1)
        /\ s[c + k] \in QuoteChars
        /\ s[c + k + 1] \in TermChars}

\* the quoted pattern with a greedy group, (.+) for (.+?)
RECURSIVE FindallQuotedGreedy(_, _)
FindallQuotedGreedy(s, i) ==
    IF i > Len(s) THEN <<>>
    ELSE IF s[i] \in QuoteChars /\ QuotedLens(s, i + 1) # {}
         THEN LET k == SetMax(QuotedLens(s, i + 1))
              IN  <<SubSeq(s, i + 1, i + k)>> \o FindallQuotedGreedy(s, i + k + 3)
         ELSE FindallQuotedGreedy(s, i + 1)

RECURSIVE FindallQuoted(_, _)
FindallQuoted(s, i) ==
    IF i > Len(s) THEN <<>>
    ELSE IF s[i] \in QuoteChars /\ QuotedLens(s, i + 1) # {}
         THEN LET k == SetMin(QuotedLens(s, i + 1))
              IN  <<SubSeq(s, i + 1, i + k)>> \o FindallQuoted(s, i + k + 3)
         ELSE FindallQuoted(s, i + 1)

\* the lengths k of a group s[c..c+k-1] that (.+?) may take when [,\]] follows it
UnquotedLens(s, c) ==
    {k \in 1..(Len(s) - c) : DotRun(s, c, c + k - 1) /\ s[c + k] \in TermChars}

\* the lengths p that [\[\s]* may take at i
OpenLens(s, i) == {p \in 0..(Len(s) - i + 1) : \A j \in i..(i + p - 1) : s[j] \in OpenChars}

RECURSIVE FindallUnquoted(_, _)
FindallUnquoted(s, i) ==
    IF i > Len(s) THEN <<>>
    ELSE LET ps == {p \in OpenLens(s, i) : UnquotedLens(s, i + p) # {}}
         IN  IF ps # {}
             THEN LET p == SetMax(ps)
                      k == SetMin(UnquotedLens(s, i + p))
                  IN  <<SubSeq(s, i + p, i + p + k - 1)>> \o FindallUnquoted(s, i + p + k + 1)
             ELSE FindallUnquoted(s, i + 1)

\* the loop over the unquoted elements: numberparse then boolparse on each; an
\* exception in one of them ends the call
RECURSIVE ConvertAll(_, _)
ConvertAll(elements, acc) ==
    IF elements = <<>> THEN PyList(acc)
    ELSE LET e == numberparse(elements[1])
         IN  IF IsRaise(e) THEN e
             ELSE ConvertAll(Tail(elements), Append(acc, boolparse(e)))

\* without any match the function ends without a return statement: None
listparse(liststring) ==
    LET quoted == FindallQuoted(liststring, 1)
        unquoted == FindallUnquoted(liststring, 1)
    IN  IF quoted # <<>> THEN PyList([j \in 1..Len(quoted) |-> PyStr(quoted[j])])
        ELSE IF unquoted # <<>> THEN ConvertAll(unquoted, <<>>)
        ELSE PyNone

(***************************************************************************)
(* ConfigReader.stringparse: words[0] = words[0][1:], then                 *)
(* words[-1] = words[-1][:-1] (on the list as already changed), then join. *)
(***************************************************************************)
DropFirst(w) == IF w = <<>> THEN <<>> ELSE Tail(w)
DropLast(w) == IF w = <<>> THEN <<>> ELSE SubSeq(w, 1, Len(w) - 1)

stringparse(words) ==
    LET w1 == [words EXCEPT ![1] = DropFirst(words[1])]
        w2 == [w1 EXCEPT ![Len(w1)] = DropLast(w1[Len(w1)])]
    IN  PyStr(JoinSpace(w2))

(***************************************************************************)
(* The dict self.params: insertion-ordered, a sequence of <<key, value>>.  *)
(***************************************************************************)
DictKeys(d) == [j \in 1..Len(d) |-> d[j][1]]
DictHas(d, k) == \E j \in 1..Len(d) : d[j][1] = k
\* d[k] for a key that is present
DictGet(d, k) == d[CHOOSE j \in 1..Len(d) : d[j][1] = k][2]

\* a dict that stores every assignment as a new entry
DictSetAppend(d, k, v) == Append(d, <<k, v>>)

\* d[k] = v: replaces the value of a present key in place, appends a new key
DictSet(d, k, v) ==
    IF DictHas(d, k)
    THEN [j \in 1..Len(d) |-> IF d[j][1] = k THEN <<k, v>> ELSE d[j]]
    ELSE Append(d, <<k, v>>)

(***************************************************************************)
(* ConfigReader.read_config                                                *)
(***************************************************************************)
\* the value of one line, from the words after the parameter name; sys.exit()
\* raises SystemExit
ParseValue(words) ==
    IF words = <<>> THEN PyNone
    ELSE IF StartsWith(words[1], "[") THEN listparse(JoinSpace(words))
    ELSE IF StartsWith(words[1], "\"") \/ StartsWith(words[1], "'") THEN stringparse(words)
    ELSE IF Len(words) > 1 THEN Raise("SystemExit")
    ELSE LET n == numberparse(words[1])
         IN  IF IsRaise(n) THEN n ELSE boolparse(n)

\* whether the loop body skips the line (empty after rstrip, or starting with '#')
Skipped(rawline) ==
    LET line == RStrip(rawline) IN line = <<>> \/ StartsWith(line, "#")

\* the loop over the lines; ends with the dict, or with the exception raised
RECURSIVE ReadLines(_, _)
ReadLines(lines, cfg) ==
    IF lines = <<>> THEN [t |-> "dict", d |-> cfg]
    ELSE IF Skipped(lines[1]) THEN ReadLines(Tail(lines), cfg)
    ELSE LET words == Split(RStrip(lines[1]))
             paramname == words[1]
             paramvalue == ParseValue(Tail(words))
         IN  IF IsRaise(paramvalue) THEN paramvalue
             ELSE ReadLines(Tail(lines), DictSet(cfg, paramname, paramvalue))

read_config(f) ==
    IF ~f.exists THEN Raise("FileNotFoundError") ELSE ReadLines(f.lines, <<>>)

(***************************************************************************)
(* ConfigReader.get, get_params, get_config, set                           *)
(***************************************************************************)
KeyError(k) == [t |-> "raise", exc |-> "KeyError", key |-> k]

\* get that wraps a single value in a tuple as well
getAlwaysTuple(d, paramname) ==
    LET missing == {j \in 1..Len(paramname) : ~DictHas(d, paramname[j])}
    IN  IF missing # {} THEN KeyError(paramname[SetMin(missing)])
        ELSE PyTuple([j \in 1..Len(paramname) |-> DictGet(d, paramname[j])])

\* [self.params[name] for name in paramname], then the bare value or the tuple
get(d, paramname) ==
    LET missing == {j \in 1..Len(paramname) : ~DictHas(d, paramname[j])}
        values == [j \in 1..Len(paramname) |-> DictGet(d, paramname[j])]
    IN  IF missing # {} THEN KeyError(paramname[SetMin(missing)])
        ELSE IF Len(values) = 1 THEN values[1]
        ELSE PyTuple(values)

get_params(d) == PyList([j \in 1..Len(d) |-> PyStr(d[j][1])])

get_config(d) == [t |-> "dict", d |-> d]

\* set that keeps the value of a name already present (dict.setdefault)
setKeepExisting(d, paramname, value) ==
    IF DictHas(d, paramname) THEN d ELSE Append(d, <<paramname, value>>)

\* self.params.update({paramname: value})
set(d, paramname, value) == DictSet(d, paramname, value)

(***************************************************************************)
(* Inputs of the ConfigReader specification.                               *)
(***************************************************************************)
NameA == <<"a">>
NameB == <<"b">>
NameC == <<"c">>

\* one line as f.readlines() yields it
Line(name, sep, value) == name \o sep \o value \o <<"\n">>

SampleLines ==
    { Line(NameA, <<" ">>, <<"T", "r", "u", "e">>),
      Line(NameA, <<" ">>, <<"F", "a", "l", "s", "e">>),
      Line(NameA, <<"\t">>, <<"y", "e", "s">>),
      Line(NameA, <<" ">>, <<"3", ".", "0">>),
      Line(NameB, <<>>, <<>>),
      Line(NameA, <<" ">>, <<"3", " ", "4">>),
      Line(NameB, <<" ">>, <<"[", "x">>),
      Line(NameB, <<" ">>, <<"[", "1", ",", " ", " ", "x", "]">>),
      Line(NameB, <<" ">>, <<"[", "]">>),
      Line(NameA, <<" ">>, <<"'", "x", " ", "y", "'">>),
      Line(NameA, <<" ">>, <<"i", "n", "f">>),
      Line(<<"#">>, <<" ">>, NameC),
      Line(<<>>, <<" ">>, <<>>) }

\* the sequences over S of length at most n
SeqsUpTo(S, n) == UNION {[1..m -> S] : m \in 0..n}

Files ==
    {[exists |-> TRUE, lines |-> ls] : ls \in SeqsUpTo(SampleLines, MaxLines)}
        \cup {[exists |-> FALSE, lines |-> <<>>]}

SetNames == {NameA, NameC}
GetNames == {NameA, NameC}
SetValues == {PyInt(7), PyStr(<<"x">>)}
GetArgs == SeqsUpTo(GetNames, MaxArgs)
Unset == [t |-> "unset"]

(***************************************************************************)
(* The three specifications share the variables; each leaves the other     *)
(* two parts idle.                                                         *)
(***************************************************************************)
readerVars == <<file, pc, exc, params, op, args, result, fileReads, lastSet>>
parseVars == <<text, src, fn, out>>
inputVars == <<li_rtype, li_default, li_pc, li_s, li_ret, li_n>>

ReaderIdle ==
    /\ file = [exists |-> FALSE, lines |-> <<>>]
    /\ pc = "idle" /\ exc = "" /\ params = <<>> /\ op = "" /\ args = <<>>
    /\ result = PyNone /\ fileReads = 0
    /\ lastSet = [n \in SetNames |-> Unset]

ParseIdle == text = <<>> /\ src = [kind |-> "idle"] /\ fn = "idle" /\ out = PyNone

InputIdle ==
    /\ li_rtype = "idle" /\ li_default = PyNone /\ li_pc = "idle"
    /\ li_s = <<>> /\ li_ret = PyNone /\ li_n = 0

(***************************************************************************)
(* ConfigReader: construction and the method calls.                        *)
(***************************************************************************)
Init ==
    /\ file \in Files
    /\ pc = "new" /\ exc = "" /\ params = <<>> /\ op = "" /\ args = <<>>
    /\ result = PyNone /\ fileReads = 0
    /\ lastSet = [n \in SetNames |-> Unset]
    /\ ParseIdle /\ InputIdle

\* __init__: self.params = self.read_config(); an exception leaves no object
Construct ==
    /\ pc = "new"
    /\ LET r == read_config(file)
       IN  /\ pc' = IF IsRaise(r) THEN "failed" ELSE "ready"
           /\ exc' = IF IsRaise(r) THEN r.exc ELSE ""
           /\ params' = IF IsRaise(r) THEN <<>> ELSE r.d
    /\ fileReads' = IF file.exists THEN fileReads + 1 ELSE fileReads
    /\ op' = "construct" /\ args' = <<>> /\ result' = PyNone
    /\ UNCHANGED <<file, lastSet, parseVars, inputVars>>

Get ==
    /\ pc = "ready"
    /\ \E names \in GetArgs :
        /\ op' = "get" /\ args' = names
        /\ result' = get(params, names)
    /\ UNCHANGED <<file, pc, exc, params, fileReads, lastSet, parseVars, inputVars>>

GetParams ==
    /\ pc = "ready"
    /\ op' = "get_params" /\ args' = <<>>
    /\ result' = get_params(params)
    /\ UNCHANGED <<file, pc, exc, params, fileReads, lastSet, parseVars, inputVars>>

GetConfig ==
    /\ pc = "ready"
    /\ op' = "get_config" /\ args' = <<>>
    /\ result' = get_config(params)
    /\ UNCHANGED <<file, pc, exc, params, fileReads, lastSet, parseVars, inputVars>>

Set ==
    /\ pc = "ready"
    /\ \E name \in SetNames, value \in SetValues :
        /\ op' = "set" /\ args' = <<name, value>>
        /\ params' = set(params, name, value)
        /\ lastSet' = [lastSet EXCEPT ![name] = value]
    /\ result' = PyNone
    /\ UNCHANGED <<file, pc, exc, fileReads, parseVars, inputVars>>

Next == Construct \/ Get \/ GetParams \/ GetConfig \/ Set

Spec == Init /\ [][Next]_vars

(***************************************************************************)
(* The parsing helpers as pure functions: the argument is drawn from the   *)
(* generated tokens and list literals, and one helper is applied to it.    *)
(***************************************************************************)
TokAlphabet == {"3", "0", "5", ".", "-"}
ExtraTokens ==
    { <<"T", "r", "u", "e">>, <<"F", "a", "l", "s", "e">>, <<"t", "r", "u", "e">>,
      <<"y", "e", "s">>, <<"i", "n", "f">>, <<"-", "I", "n", "f">>, <<"n", "a", "n">>,
      <<"3", " ">>, <<"'", "x", " ", "y", "\"">>, <<"'">> }
Tokens == SeqsUpTo(TokAlphabet, MaxTokLen) \cup ExtraTokens

\* the elements of generated list literals: bare text, or text between two quote characters
BareTexts ==
    { <<"x">>, <<"4", "2">>, <<"3", ".", "5">>,
      <<"T", "r", "u", "e">>, <<"F", "a", "l", "s", "e">> }
QuotedTexts == {<<"x">>, <<"4", "2">>, <<"x", ",", " ", "y">>}
QuotePairs == {<<"\"", "\"">>, <<"'", "'">>, <<"\"", "'">>}
Elements ==
    {[quoted |-> FALSE, body |-> b] : b \in BareTexts}
        \cup {[quoted |-> TRUE, body |-> b, open |-> q[1], close |-> q[2]] :
                  b \in QuotedTexts, q \in QuotePairs}
Separators == {<<",">>, <<",", " ">>}

ElementText(e) == IF e.quoted THEN <<e.open>> \o e.body \o <<e.close>> ELSE e.body

RECURSIVE JoinWith(_, _)
JoinWith(texts, sep) ==
    IF texts = <<>> THEN <<>>
    ELSE IF Len(texts) = 1 THEN texts[1]
    ELSE texts[1] \o sep \o JoinWith(Tail(texts), sep)

\* the list literal [e1, ..., en]
Literal(elems, sep) ==
    <<"[">> \o JoinWith([j \in 1..Len(elems) |-> ElementText(elems[j])], sep) \o <<"]">>

\* list literals that are cut short
BrokenLiterals == {<<"[">>, <<"[", "x">>, <<"[", " ", "]">>, <<"[", "x", ",", " ", "y">>}

ElementSeqs == SeqsUpTo(Elements, MaxElems)

InitParse ==
    /\ \/ /\ text \in Tokens \cup BrokenLiterals
          /\ src = [kind |-> "text"]
       \/ \E elems \in ElementSeqs, sep \in Separators :
             /\ text = Literal(elems, sep)
             /\ src = [kind |-> "literal", elems |-> elems, sep |-> sep]
    /\ fn = "" /\ out = PyNone
    /\ ReaderIdle /\ InputIdle

NumberParse ==
    /\ fn = ""
    /\ fn' = "numberparse"
    /\ out' = numberparse(text)
    /\ UNCHANGED <<text, src, readerVars, inputVars>>

\* boolparse on the string itself
BoolParse ==
    /\ fn = ""
    /\ fn' = "boolparse"
    /\ out' = boolparse(PyStr(text))
    /\ UNCHANGED <<text, src, readerVars, inputVars>>

\* boolparse on what numberparse returned, as read_config and listparse chain them
NumberThenBool ==
    /\ fn = "numberparse" /\ ~IsRaise(out)
    /\ fn' = "numberparse+boolparse"
    /\ out' = boolparse(out)
    /\ UNCHANGED <<text, src, readerVars, inputVars>>

ListParse ==
    /\ fn = ""
    /\ fn' = "listparse"
    /\ out' = listparse(text)
    /\ UNCHANGED <<text, src, readerVars, inputVars>>

\* stringparse on the words of the text (words[0] needs one word at least)
StringParse ==
    /\ fn = "" /\ Split(text) # <<>>
    /\ fn' = "stringparse"
    /\ out' = stringparse(Split(text))
    /\ UNCHANGED <<text, src, readerVars, inputVars>>

NextParse == NumberParse \/ BoolParse \/ NumberThenBool \/ ListParse \/ StringParse

SpecParse == InitParse /\ [][NextParse]_vars

(***************************************************************************)
(* loop_input: one action per answered prompt, that is, per pass of the    *)
(* while True loop.                                                        *)
(***************************************************************************)
RTypes == {"str", "int", "float", "bool", "file"}
Defaults == {PyNone, PyInt(1)}
\* paths on the file system: open(s, "r") succeeds, or raises IsADirectoryError;
\* every other path raises FileNotFoundError
ExistingFiles == {<<"f">>}
Directories == {<<"d">>}
Entered ==
    { <<>>, <<"T", "r", "u", "e">>, <<"F", "a", "l", "s", "e">>, <<"7">>,
      <<"3", ".", "5">>, <<"f">>, <<"d">>, <<"x">> }

Continue == [t |-> "continue"]

\* rtype(s) for the callable types; ValueError is caught by the loop
Convert(rtype, s) ==
    CASE rtype = "str" -> PyStr(s)
      [] rtype = "int" -> IF ParseInt(s).ok THEN ParseInt(s).v ELSE Continue
      [] rtype = "float" -> IF ParseFloat(s).ok THEN ParseFloat(s).v ELSE Continue
      [] rtype = "bool" -> PyBool(BoolOfStr(s))

\* one pass of the loop body on the entered text s: the value returned, the
\* exception raised, or Continue when the loop prompts again
LoopBody(rtype, default, s) ==
    IF rtype = "bool" /\ Len(s) > 0
    THEN IF s = <<"T", "r", "u", "e">> THEN PyBool(TRUE)
         ELSE IF s = <<"F", "a", "l", "s", "e">> THEN PyBool(FALSE)
         ELSE Continue
    ELSE IF rtype = "file" /\ Len(s) > 0
         THEN IF s \in ExistingFiles THEN Continue
              ELSE IF s \in Directories THEN Raise("IsADirectoryError")
              ELSE Continue
         ELSE IF Len(s) > 0 THEN Convert(rtype, s) ELSE default

InitInput ==
    /\ li_rtype \in RTypes
    /\ li_default \in Defaults
    /\ li_pc = "prompt" /\ li_s = <<>> /\ li_ret = PyNone /\ li_n = 0
    /\ ReaderIdle /\ ParseIdle

Prompt ==
    /\ li_pc = "prompt" /\ li_n < MaxPrompts
    /\ \E s \in Entered :
        LET r == LoopBody(li_rtype, li_default, s)
        IN  /\ li_s' = s
            /\ li_pc' = IF r = Continue THEN "prompt"
                        ELSE IF IsRaise(r) THEN "raised" ELSE "returned"
            /\ li_ret' = IF r = Continue THEN li_ret ELSE r
    /\ li_n' = li_n + 1
    /\ UNCHANGED <<li_rtype, li_default, readerVars, parseVars>>

NextInput == Prompt

SpecInput == InitInput /\ [][NextInput]_vars

(***************************************************************************)
(* What the file declares, read off its lines.                             *)
(***************************************************************************)
LineWords(j) == Split(RStrip(file.lines[j]))
Declaring == {j \in 1..Len(file.lines) : ~Skipped(file.lines[j])}
Declared == {LineWords(j)[1] : j \in Declaring}
\* the words after the name on the last line that declares n
LastValueWords(n) == Tail(LineWords(SetMax({j \in Declaring : LineWords(j)[1] = n})))
\* a value that is neither a list literal nor a quoted string
BareWords(w) == w # <<>> /\ ~StartsWith(w[1], "[") /\ w[1][1] \notin QuoteChars
\* the state right after a successful construction
Loaded == pc = "ready" /\ op = "construct"

TrueToken == <<"T", "r", "u", "e">>
FalseToken == <<"F", "a", "l", "s", "e">>

(***************************************************************************)
(* C1: on a line `name token` with a single bare token, the loaded value   *)
(* is boolean true for the token True, boolean false for the token False,  *)
(* and the token itself, as a string, for every other non-numeric token.   *)
(***************************************************************************)
C1_Bool ==
    Loaded =>
        \A n \in Declared :
            LET w == LastValueWords(n)
            IN  (Len(w) = 1 /\ BareWords(w)) =>
                    /\ w[1] = TrueToken => DictGet(params, n) = PyBool(TRUE)
                    /\ w[1] = FalseToken => DictGet(params, n) = PyBool(FALSE)
                    /\ (w[1] \notin {TrueToken, FalseToken} /\ ~ParseFloat(w[1]).ok)
                           => DictGet(params, n) = PyStr(w[1])

(***************************************************************************)
(* C2: loading is all-or-nothing: when some declaring line has two or more *)
(* words after the name, the first of them starting with neither a bracket *)
(* nor a quote, construction aborts and no configuration is there;         *)
(* otherwise construction completes and every declared name has an entry.  *)
(***************************************************************************)
FatalLine(j) == Len(LineWords(j)) > 2 /\ BareWords(Tail(LineWords(j)))

C2_AllOrNothing ==
    (op = "construct" /\ file.exists) =>
        IF \E j \in Declaring : FatalLine(j)
        THEN pc = "failed" /\ params = <<>>
        ELSE pc = "ready" /\ \A n \in Declared : DictHas(params, n)

(***************************************************************************)
(* C3: on a list literal that mixes quoted and unquoted elements,          *)
(* listparse returns exactly the contents of the quoted elements, in their *)
(* order of appearance, and drops every unquoted element.                  *)
(***************************************************************************)
QuotedAt(elems) == {j \in 1..Len(elems) : elems[j].quoted}

RECURSIVE QuotedBodies(_)
QuotedBodies(elems) ==
    IF elems = <<>> THEN <<>>
    ELSE IF elems[1].quoted THEN <<PyStr(elems[1].body)>> \o QuotedBodies(Tail(elems))
    ELSE QuotedBodies(Tail(elems))

Mixed == /\ src.kind = "literal"
         /\ QuotedAt(src.elems) # {}
         /\ QuotedAt(src.elems) # 1..Len(src.elems)

C3_QuotedOnly ==
    (fn = "listparse" /\ Mixed) => out = PyList(QuotedBodies(src.elems))

\* a literal of the shape quoted, unquoted, quoted has been parsed
C3_Witness ==
    /\ fn = "listparse" /\ Mixed
    /\ Len(src.elems) = 3 /\ QuotedAt(src.elems) = {1, 3}
    /\ src.elems[1].open # src.elems[1].close
    /\ Len(out.l) = 2

(***************************************************************************)
(* C4: get with k >= 1 names returns the bare stored value for k = 1 and   *)
(* the k-tuple of the stored values, in request order, for k >= 2, when    *)
(* every name is present; it fails with a key error when a name is absent; *)
(* either way the configuration is as it was.                              *)
(***************************************************************************)
C4_Step ==
    (op' = "get" /\ Len(args') >= 1) =>
        LET k == Len(args')
            present == \A j \in 1..k : DictHas(params, args'[j])
        IN  /\ params' = params
            /\ (present /\ k = 1) => result' = DictGet(params, args'[1])
            /\ (present /\ k >= 2) =>
                   /\ result'.t = "tuple"
                   /\ Len(result'.tup) = k
                   /\ \A j \in 1..k : result'.tup[j] = DictGet(params, args'[j])
            /\ ~present => (result'.t = "raise" /\ result'.exc = "KeyError")

C4_Get == [][C4_Step]_vars

\* two different present names were requested and a 2-tuple came back
C4_Witness ==
    /\ op = "get" /\ Len(args) = 2 /\ args[1] # args[2]
    /\ result.t = "tuple"
    /\ result.tup[1] # result.tup[2]

(***************************************************************************)
(* C5: after set(name, v), get(name) returns v until the next set of that  *)
(* name, whether the name was present or is new; the set changes no other  *)
(* name's value; neither call reads or writes the configuration file.      *)
(***************************************************************************)
AllNames == {NameA, NameB, NameC}

C5_Step ==
    /\ op' = "set" =>
          /\ DictHas(params', args'[1])
          /\ DictGet(params', args'[1]) = args'[2]
          /\ \A m \in AllNames \ {args'[1]} :
                /\ DictHas(params', m) <=> DictHas(params, m)
                /\ DictHas(params, m) => DictGet(params', m) = DictGet(params, m)
          /\ fileReads' = fileReads /\ file' = file
    /\ (op' = "get" /\ Len(args') = 1) =>
          /\ lastSet[args'[1]] # Unset => result' = lastSet[args'[1]]
          /\ fileReads' = fileReads /\ file' = file

C5_SetThenGet == [][C5_Step]_vars

\* a name the file declares and a new name were both set, and get of the declared
\* name returns the value set for it
C5_Witness ==
    /\ op = "get" /\ args = <<NameA>>
    /\ NameA \in Declared /\ NameB \in Declared
    /\ lastSet[NameA] # Unset /\ lastSet[NameC] # Unset
    /\ result = lastSet[NameA]

(***************************************************************************)
(* C6: after a successful load every parameter name occurs once, a name    *)
(* declared on several lines holds the value parsed from the last of them, *)
(* and declaring a name again does not abort the load.                     *)
(***************************************************************************)
NoDuplicates(q) == \A i, j \in 1..Len(q) : q[i] = q[j] => i = j

C6_LastWins ==
    /\ pc = "ready" => NoDuplicates(get_params(params).l)
    /\ Loaded =>
          /\ \A n \in Declared : DictGet(params, n) = ParseValue(LastValueWords(n))
          /\ Len(params) = Cardinality(Declared)
    /\ (op = "construct" /\ file.exists
          /\ \A j \in Declaring : ~IsRaise(ParseValue(Tail(LineWords(j)))))
       => pc = "ready"

\* a file that declares one name twice, with different values, has been loaded
C6_Witness ==
    /\ Loaded
    /\ Declaring = {1, 2}
    /\ LineWords(1)[1] = LineWords(2)[1]
    /\ ParseValue(Tail(LineWords(1))) # ParseValue(Tail(LineWords(2)))

(***************************************************************************)
(* C7: numberparse returns the integer for a token whose value is an       *)
(* integer, the fractional number for a token with a non-integral value,   *)
(* the token itself for a token that is no number, and never fails.        *)
(***************************************************************************)
C7_Number ==
    fn = "numberparse" =>
        LET f == ParseFloat(text)
        IN  /\ ~IsRaise(out)
            /\ ~f.ok => out = PyStr(text)
            /\ (f.ok /\ f.v.t = "float" /\ f.v.den = 1) => out = PyInt(f.v.num)
            /\ (f.ok /\ f.v.t = "float" /\ f.v.den > 1) => out = f.v

(***************************************************************************)
(* C8: on a list literal [e1, ..., en] without quote characters, listparse *)
(* returns n elements, the i-th being ei converted: a number if ei parses  *)
(* as one, else true or false if ei is exactly True or False, else ei.     *)
(***************************************************************************)
ClaimedElement(e) ==
    LET f == ParseFloat(e)
    IN  IF f.ok /\ f.v.t = "float" THEN (IF f.v.den = 1 THEN PyInt(f.v.num) ELSE f.v)
        ELSE IF e = TrueToken THEN PyBool(TRUE)
        ELSE IF e = FalseToken THEN PyBool(FALSE)
        ELSE PyStr(e)

C8_Unquoted ==
    (fn = "listparse" /\ src.kind = "literal" /\ Len(src.elems) >= 1
        /\ QuotedAt(src.elems) = {})
    => out = PyList([j \in 1..Len(src.elems) |-> ClaimedElement(src.elems[j].body)])

(***************************************************************************)
(* C9: with rtype "file", loop_input prompts again only while the entered  *)
(* non-empty text is not the path of an existing file; on the path of an   *)
(* existing file it returns, and on empty input it returns the default.    *)
(***************************************************************************)
C9_File ==
    (li_rtype = "file" /\ li_n > 0) =>
        /\ li_s \in ExistingFiles => li_pc = "returned"
        /\ li_s = <<>> => (li_pc = "returned" /\ li_ret = li_default)
        /\ li_pc = "prompt" => (li_s # <<>> /\ li_s \notin ExistingFiles)

(***************************************************************************)
(* C10: after a successful load a parameter's value is None if and only if *)
(* the last line declaring it has no words after the name; a value that    *)
(* starts with a bracket is stored as a sequence, never as None.           *)
(***************************************************************************)
C10_NoneIffNoValue ==
    Loaded =>
        \A n \in Declared :
            /\ DictGet(params, n) = PyNone <=> LastValueWords(n) = <<>>
            /\ (LastValueWords(n) # <<>> /\ StartsWith(LastValueWords(n)[1], "["))
                   => DictGet(params, n).t = "list"

====
